---- MODULE Spec2Model ----
(***************************************************************************)
(* Verification model of the PHP <-> Python integration examples:          *)
(*   - the Redis queue worker   (chapter-11/05-production-patterns)        *)
(*   - the command line scripts (chapters 11, 17, 18, 20)                  *)
(*   - the Flask REST server    (chapter-11/04-rest-api-example)           *)
(*   - the computations of exercise1-train.py, onnx_inference.py and       *)
(*     process.py on the values they are given                             *)
(* Each subsystem has its own variables, actions and specification; the    *)
(* variables of the other subsystems stay at their initial value.          *)
(***************************************************************************)
EXTENDS Integers, Sequences, FiniteSets, TLC

(***************************************************************************)
(* Bounds of the model.                                                    *)
(***************************************************************************)
MaxQueue == 3
MaxShared == 2
MaxId == 2
NumWorkers == 2
MaxF1 == 2
MaxClasses == 3
MaxProb == 2
MaxTopK == 4
MaxPurchases == 11
MaxUsers == 2

(***************************************************************************)
(* Shared vocabulary.                                                      *)
(***************************************************************************)
Absent == "absent"
NoId == 0
Ids == 1..MaxId
Workers == 1..NumWorkers

\* A message is a sequence of string fragments (Python string formatting).
NoMsg == << >>

\* queue worker: the Redis list 'ml_tasks', the Redis keys, and per worker
\* process its position in main() and the locals task, task_id, task_data, e;
\* cur, produced, poppedBy, handled, writes and modelCalls record the history
VARIABLES queue, store, active, pc, task, task_id, task_data, exc, modelLoaded,
          cur, produced, poppedBy, handled, writes, modelCalls, callbacks

wvars == <<queue, store, active, pc, task, task_id, task_data, exc, modelLoaded,
           cur, produced, poppedBy, handled, writes, modelCalls, callbacks>>

\* command line scripts: the script run, its arguments, and what the run left
VARIABLES script, argv, cpc, out, exit_code, raised, traceback, cmodel

cvars == <<script, argv, cpc, out, exit_code, raised, traceback, cmodel>>

\* REST server: the process, the globals classifier and vectorizer, and the
\* last exchange on each route
VARIABLES fpc, fenv, classifier, vectorizer, loads, health, single, batch

fvars == <<fpc, fenv, classifier, vectorizer, loads, health, single, batch>>

\* the computations: which function runs, on what, and what it returned
VARIABLES fn, arg, ret

pvars == <<fn, arg, ret>>

vars == <<wvars, cvars, fvars, pvars>>

(***************************************************************************)
(* Queue worker: values.                                                   *)
(***************************************************************************)
\* expiry passed to every setex
TTL == 3600

NoRec == [kind |-> "none"]
Unbound == [kind |-> "unbound"]

DictWithText == [kind |-> "dict", text |-> "great"]
DictNoText == [kind |-> "dict", text |-> Absent]
ListData == [kind |-> "list", text |-> Absent]
NoData == [kind |-> Absent, text |-> Absent]

\* where a producer asks to be called back
CallbackUrl == "http://127.0.0.1:8000/callback.php"

MalformedPayload ==
  [kind |-> "malformed", id |-> NoId, type |-> Absent, data |-> NoData,
   callback |-> Absent]
ArrayPayload ==
  [kind |-> "array", id |-> NoId, type |-> Absent, data |-> NoData,
   callback |-> Absent]
ObjectPayload(i, t, d, c) ==
  [kind |-> "object", id |-> i, type |-> t, data |-> d, callback |-> c]

\* the shapes of {type, data, callback} a producer can put on the queue
TaskShapes ==
  { <<"sentiment_analysis", DictWithText, Absent>>,
    <<"sentiment_analysis", DictNoText, Absent>>,
    <<"sentiment_analysis", ListData, Absent>>,
    <<"sentiment_analysis", NoData, Absent>>,
    <<"image_classification", DictWithText, CallbackUrl>>,
    <<"training", DictWithText, CallbackUrl>>,
    <<Absent, DictWithText, Absent>> }

Payloads ==
  {MalformedPayload, ArrayPayload,
   ObjectPayload(NoId, "sentiment_analysis", DictWithText, Absent)}
  \cup {ObjectPayload(i, s[1], s[2], s[3]) : i \in Ids, s \in TaskShapes}

\* payloads of the several-worker runs
FewPayloads ==
  {MalformedPayload,
   ObjectPayload(NoId, "sentiment_analysis", DictWithText, Absent)}
  \cup {ObjectPayload(i, "image_classification", DictWithText, CallbackUrl) :
          i \in Ids}

\* the producer issues the ids 1, 2, ... in the order it pushes (on the left),
\* so ids are unique and the rightmost payload with an id has the smallest
IdsInOrder(q) ==
  LET withId == {n \in 1..Len(q) : q[n].id # NoId}
  IN  \A n \in withId :
        q[n].id = Cardinality({m \in withId : m >= n})

QueuesOver(P, max) ==
  {q \in UNION {[1..n -> P] : n \in 0..max} : IdsInOrder(q)}

(***************************************************************************)
(* Queue worker: pure functions.                                           *)
(***************************************************************************)
\* json.loads(task_data[1]) : the decoded value, or a JSONDecodeError
JsonLoads(p) ==
  IF p.kind = "malformed"
    THEN [ok |-> FALSE, value |-> Unbound,
          exc |-> <<"Expecting value: line 1 column 1 (char 0)">>]
  ELSE IF p.kind = "array"
    THEN [ok |-> TRUE, value |-> [kind |-> "list"], exc |-> NoMsg]
  ELSE [ok |-> TRUE,
        value |-> [kind |-> "dict", id |-> p.id, type |-> p.type, data |-> p.data,
                   callback |-> p.callback, status |-> "queued", started_at |-> Absent,
                   completed_at |-> Absent, error |-> NoMsg],
        exc |-> NoMsg]

Raise(m) == [ok |-> FALSE, value |-> NoRec, exc |-> m, modelCall |-> FALSE]
Return(v, c) == [ok |-> TRUE, value |-> v, exc |-> NoMsg, modelCall |-> c]

\* the loaded classifier, a fixed function of the text
ModelSentiment(text) == IF text = "great" THEN "positive" ELSE "negative"
ModelConfidence(text) == IF text = "great" THEN 97 ELSE 55

\* lines 28-41, what importing the module leaves in SENTIMENT_MODEL and
\* SENTIMENT_VECTORIZER: "loaded" when joblib and the model files are there,
\* "None" when the model file is missing, "undefined" when `import joblib`
\* raises ImportError, which skips the two assignments of None
ModuleStates == {"loaded", "None", "undefined"}

\* process_sentiment_analysis(data); confidences are in hundredths
ProcessSentimentAnalysis(data, loaded) ==
  IF data.kind # "dict"
    THEN Raise(<<"'list' object has no attribute 'get'">>)
  ELSE LET text == IF data.text = Absent THEN "" ELSE data.text
       IN  IF loaded = "undefined"
             THEN Raise(<<"name 'SENTIMENT_MODEL' is not defined">>)
           ELSE IF loaded = "loaded"
             THEN Return([kind |-> "result", text |-> text,
                          sentiment |-> ModelSentiment(text),
                          confidence |-> ModelConfidence(text),
                          note |-> Absent, label |-> Absent], TRUE)
             ELSE Return([kind |-> "result", text |-> text,
                          sentiment |-> "positive", confidence |-> 85,
                          note |-> "Simulated (model not loaded)",
                          label |-> Absent], FALSE)

\* a dispatcher that treats every unknown type as an image classification
ProcessTaskDefaultImage(t, loaded) ==
  IF t.data.kind = Absent THEN Raise(<<"'data'">>)
  ELSE IF t.type = "sentiment_analysis"
    THEN ProcessSentimentAnalysis(t.data, loaded)
  ELSE Return([kind |-> "result", text |-> Absent, sentiment |-> Absent,
               confidence |-> 92, note |-> Absent, label |-> "cat"], FALSE)

\* process_task(task)
ProcessTask(t, loaded) ==
  IF t.data.kind = Absent THEN Raise(<<"'data'">>)
  ELSE IF t.type = "sentiment_analysis"
    THEN ProcessSentimentAnalysis(t.data, loaded)
  ELSE IF t.type = "image_classification"
    THEN Return([kind |-> "result", text |-> Absent, sentiment |-> Absent,
                 confidence |-> 92, note |-> Absent, label |-> "cat"], FALSE)
  ELSE Raise(<<"Unknown task type: ", t.type>>)

\* a store that drops what is written under result:<id>
SetexTaskOnly(s, key, value) ==
  IF key[1] = "result" THEN s
  ELSE [s EXCEPT ![key] = [kind |-> "entry", val |-> value, ttl |-> TTL]]

\* r.setex(key, 3600, json.dumps(value))
Setex(s, key, value) ==
  [s EXCEPT ![key] = [kind |-> "entry", val |-> value, ttl |-> TTL]]

Keys == {"task", "result"} \X Ids
TaskKey(i) == <<"task", i>>
ResultKey(i) == <<"result", i>>

NoPayload ==
  [kind |-> "none", id |-> NoId, type |-> Absent, data |-> NoData,
   callback |-> Absent]

(***************************************************************************)
(* Queue worker: initial state and the steps of main().                    *)
(***************************************************************************)
WorkerInit(W, P, L, max) ==
  /\ queue \in QueuesOver(P, max)
  /\ store = [k \in Keys |-> NoRec]
  /\ active = W
  /\ pc = [w \in Workers |-> IF w \in W THEN "pop" ELSE "stopped"]
  /\ task = [w \in Workers |-> Unbound]
  /\ task_id = [w \in Workers |-> NoId]
  /\ task_data = [w \in Workers |-> NoPayload]
  /\ exc = [w \in Workers |-> NoMsg]
  /\ modelLoaded \in L
  /\ cur = [w \in Workers |-> NoPayload]
  /\ produced = {queue[n].id : n \in 1..Len(queue)} \ {NoId}
  /\ poppedBy = [i \in Ids |-> {}]
  /\ handled = [i \in Ids |-> 0]
  /\ writes = {}
  /\ modelCalls = {}
  /\ callbacks = {}

\* a reader that leaves the payload on the list
BrpopPeek(q) == q

\* what r.brpop leaves on the list: everything but the rightmost payload
BrpopRest(q) == SubSeq(q, 1, Len(q) - 1)

\* r.brpop('ml_tasks', timeout=1) returns the rightmost payload
Pop(w) ==
  /\ pc[w] = "pop"
  /\ UNCHANGED <<cvars, fvars, pvars, callbacks>>
  /\ queue # << >>
  /\ LET p == queue[Len(queue)]
     IN  /\ queue' = BrpopRest(queue)
         /\ task_data' = [task_data EXCEPT ![w] = p]
         /\ cur' = [cur EXCEPT ![w] = p]
         /\ poppedBy' = IF p.id = NoId THEN poppedBy
                        ELSE [poppedBy EXCEPT ![p.id] = @ \cup {w}]
  /\ pc' = [pc EXCEPT ![w] = "decode"]
  /\ UNCHANGED <<store, active, task, task_id, exc, modelLoaded, produced,
                 handled, writes, modelCalls>>

\* a timed-out poll that goes through the failure handler
PopTimeoutMarksFailed(w) ==
  /\ pc[w] = "pop"
  /\ UNCHANGED <<cvars, fvars, pvars, callbacks>>
  /\ queue = << >>
  /\ task_data' = [task_data EXCEPT ![w] = NoPayload]
  /\ cur' = [cur EXCEPT ![w] = NoPayload]
  /\ IF task_id[w] # NoId /\ task[w].kind = "dict"
       THEN LET t == [task[w] EXCEPT !.status = "failed"]
            IN  /\ task' = [task EXCEPT ![w] = t]
                /\ store' = Setex(store, TaskKey(task_id[w]), t)
                /\ writes' = writes \cup {<<w, TaskKey(task_id[w])>>}
       ELSE UNCHANGED <<task, store, writes>>
  /\ UNCHANGED <<queue, active, pc, task_id, exc, modelLoaded,
                 produced, poppedBy, handled, modelCalls>>

\* r.brpop times out: task_data is None, `continue`
PopTimeout(w) ==
  /\ pc[w] = "pop"
  /\ UNCHANGED <<cvars, fvars, pvars, callbacks>>
  /\ queue = << >>
  /\ task_data' = [task_data EXCEPT ![w] = NoPayload]
  /\ cur' = [cur EXCEPT ![w] = NoPayload]
  /\ UNCHANGED <<queue, store, active, pc, task, task_id, exc, modelLoaded,
                 produced, poppedBy, handled, writes, modelCalls>>

\* r.brpop raises (connection lost, socket timeout)
PopRaises(w) ==
  /\ pc[w] = "pop"
  /\ UNCHANGED <<cvars, fvars, pvars, callbacks>>
  /\ exc' = [exc EXCEPT ![w] = <<"Connection closed by server.">>]
  /\ cur' = [cur EXCEPT ![w] = NoPayload]
  /\ pc' = [pc EXCEPT ![w] = "except"]
  /\ UNCHANGED <<queue, store, active, task, task_id, task_data, modelLoaded,
                 produced, poppedBy, handled, writes, modelCalls>>

\* lines 108-116: decode, read the id, print, mark processing, setex
Receive(w) ==
  /\ pc[w] = "decode"
  /\ UNCHANGED <<cvars, fvars, pvars, callbacks>>
  /\ LET d == JsonLoads(task_data[w])
         fail(m) == /\ exc' = [exc EXCEPT ![w] = m]
                    /\ pc' = [pc EXCEPT ![w] = "except"]
                    /\ UNCHANGED <<store, writes>>
     IN  IF ~d.ok
           THEN /\ fail(d.exc)
                /\ UNCHANGED <<task, task_id>>
         ELSE IF d.value.kind = "list"
           THEN /\ task' = [task EXCEPT ![w] = d.value]
                /\ fail(<<"list indices must be integers or slices, not str">>)
                /\ UNCHANGED task_id
         ELSE IF d.value.id = NoId
           THEN /\ task' = [task EXCEPT ![w] = d.value]
                /\ fail(<<"'id'">>)
                /\ UNCHANGED task_id
         ELSE IF d.value.type = Absent
           THEN /\ task' = [task EXCEPT ![w] = d.value]
                /\ task_id' = [task_id EXCEPT ![w] = d.value.id]
                /\ fail(<<"'type'">>)
         ELSE LET t == [d.value EXCEPT !.status = "processing",
                                       !.started_at = "set"]
              IN  /\ task' = [task EXCEPT ![w] = t]
                  /\ task_id' = [task_id EXCEPT ![w] = t.id]
                  /\ store' = Setex(store, TaskKey(t.id), t)
                  /\ writes' = writes \cup {<<w, TaskKey(t.id)>>}
                  /\ pc' = [pc EXCEPT ![w] = "process"]
                  /\ UNCHANGED exc
  /\ UNCHANGED <<queue, active, task_data, modelLoaded, cur, produced, poppedBy,
                 handled, modelCalls>>

\* lines 119-122: process_task(task), then setex of the result
Process(w) ==
  /\ pc[w] = "process"
  /\ UNCHANGED <<cvars, fvars, pvars, callbacks>>
  /\ LET r == ProcessTask(task[w], modelLoaded)
     IN  /\ handled' = [handled EXCEPT ![task_id[w]] = @ + 1]
         /\ modelCalls' = IF r.modelCall THEN modelCalls \cup {task_id[w]}
                          ELSE modelCalls
         /\ IF r.ok
              THEN /\ store' = Setex(store, ResultKey(task_id[w]), r.value)
                   /\ writes' = writes \cup {<<w, ResultKey(task_id[w])>>}
                   /\ pc' = [pc EXCEPT ![w] = "complete"]
                   /\ UNCHANGED exc
              ELSE /\ exc' = [exc EXCEPT ![w] = r.exc]
                   /\ pc' = [pc EXCEPT ![w] = "except"]
                   /\ UNCHANGED <<store, writes>>
  /\ UNCHANGED <<queue, active, task, task_id, task_data, modelLoaded, cur,
                 produced, poppedBy>>

\* an iteration that ends without writing the completed record
CompleteNoWrite(w) ==
  /\ pc[w] = "complete"
  /\ UNCHANGED <<cvars, fvars, pvars, callbacks>>
  /\ pc' = [pc EXCEPT ![w] = "pop"]
  /\ UNCHANGED <<queue, store, active, task, task_id, task_data, exc,
                 modelLoaded, cur, produced, poppedBy, handled, writes,
                 modelCalls>>

\* lines 125-127: mark completed, setex
Complete(w) ==
  /\ pc[w] = "complete"
  /\ UNCHANGED <<cvars, fvars, pvars, callbacks>>
  /\ LET t == [task[w] EXCEPT !.status = "completed", !.completed_at = "set"]
     IN  /\ task' = [task EXCEPT ![w] = t]
         /\ store' = Setex(store, TaskKey(task_id[w]), t)
         /\ writes' = writes \cup {<<w, TaskKey(task_id[w])>>}
  /\ pc' = [pc EXCEPT ![w] = "pop"]
  /\ UNCHANGED <<queue, active, task_id, task_data, exc, modelLoaded, cur,
                 produced, poppedBy, handled, modelCalls>>

\* a handler that puts the failed payload back on the list
RequeueAfterFailure(q, p) == IF p.kind = "none" THEN q ELSE <<p>> \o q

\* the list after the handler ran: the handler does not touch it
QueueAfterFailure(q, p) == q

\* a handler that forgets the error text
FailedRecordNoError(t, e) == [t EXCEPT !.status = "failed"]

\* the record the handler writes: the local `task` marked failed
FailedRecord(t, e) == [t EXCEPT !.status = "failed", !.error = e]

\* which key the handler writes: the local task_id
FailedKey(w) == TaskKey(task_id[w])

\* lines 134-139: except Exception
Except(w) ==
  /\ pc[w] = "except"
  /\ UNCHANGED <<cvars, fvars, pvars, callbacks>>
  /\ IF task_id[w] = NoId
       THEN /\ pc' = [pc EXCEPT ![w] = "pop"]
            /\ UNCHANGED <<task, store, writes>>
     ELSE IF task[w].kind = "list"
       \* task['status'] = ... raises TypeError inside the handler
       THEN /\ pc' = [pc EXCEPT ![w] = "crashed"]
            /\ UNCHANGED <<task, store, writes>>
     ELSE LET t == FailedRecord(task[w], exc[w])
          IN  /\ task' = [task EXCEPT ![w] = t]
              /\ store' = Setex(store, FailedKey(w), t)
              /\ writes' = writes \cup {<<w, FailedKey(w)>>}
              /\ pc' = [pc EXCEPT ![w] = "pop"]
  /\ queue' = QueueAfterFailure(queue, cur[w])
  \* the name e is unbound again when the except clause ends
  /\ exc' = [exc EXCEPT ![w] = NoMsg]
  /\ UNCHANGED <<active, task_id, task_data, modelLoaded, cur,
                 produced, poppedBy, handled, modelCalls>>

\* lines 131-133: KeyboardInterrupt ends the loop
Interrupt(w) ==
  /\ pc[w] \notin {"stopped", "crashed"}
  /\ UNCHANGED <<cvars, fvars, pvars, callbacks>>
  /\ pc' = [pc EXCEPT ![w] = "stopped"]
  /\ UNCHANGED <<queue, store, active, task, task_id, task_data, exc,
                 modelLoaded, cur, produced, poppedBy, handled, writes, modelCalls>>


(***************************************************************************)
(* Command line scripts: one run of one script.                            *)
(***************************************************************************)
JsonScripts == {"hello", "process", "predict", "quick_sentiment", "train_prophet"}
PathScripts == {"train_model", "exercise1", "onnx", "detect_opencv", "detect_yolo"}
Scripts == JsonScripts \cup PathScripts

\* the JSON text given in argv[1] or on stdin, by what json.loads makes of it
NoInput == [kind |-> "none", text |-> Absent, items |-> Absent]
MalformedJson == [kind |-> "malformed", text |-> Absent, items |-> Absent]
JsonObject(t) == [kind |-> "dict", text |-> t, items |-> Absent]
JsonArray(e) == [kind |-> "list", text |-> Absent, items |-> e]
JsonNumber == [kind |-> "number", text |-> Absent, items |-> Absent]
JsonString == [kind |-> "string", text |-> Absent, items |-> Absent]

\* values of the 'text' member: absent, strings, and a number
TextValues == {Absent, "", "   ", "great", "#123"}
IsStr(t) == t \in {"", "   ", "great"}
\* Python truthiness and str.strip() of a 'text' member
Truthy(t) == t \in {"   ", "great", "#123"}
Strip(t) == IF t = "   " THEN "" ELSE t

JsonInputs ==
  {NoInput, MalformedJson, JsonNumber, JsonString}
  \cup {JsonObject(t) : t \in TextValues}
  \cup {JsonArray(e) : e \in {"dicts", "numbers"}}

\* the optional numeric arguments, and what the library call does
NumArgs == {"absent", "valid", "garbage"}
LibOutcomes == {"ok", "raises", "nofile"}

CliInputs(s) ==
  IF s \in JsonScripts
    THEN [json : JsonInputs, path : {FALSE}, num : {"absent"},
          lib : IF s \in {"predict", "train_prophet"} THEN LibOutcomes ELSE {"ok"}]
    ELSE [json : {NoInput}, path : BOOLEAN,
          num : IF s \in {"onnx", "detect_opencv", "detect_yolo"}
                  THEN NumArgs ELSE {"absent"},
          lib : LibOutcomes]

\* what a run leaves behind: the documents printed on stdout, the exit status,
\* whether an exception was raised / escaped, whether the model was touched
ErrorJson == [kind |-> "json", error |-> TRUE]
ResultJson == [kind |-> "json", error |-> FALSE]
ProgressText == [kind |-> "text", error |-> FALSE]

Run(o, code, r, tb, m) ==
  [out |-> o, exit |-> code, raised |-> r, traceback |-> tb, model |-> m]
\* print(json.dumps({'error': ...})); sys.exit(1) without any exception
Usage == Run(<<ErrorJson>>, 1, FALSE, FALSE, FALSE)
\* an exception caught by the script's handler: error JSON, sys.exit(1)
Caught(m) == Run(<<ErrorJson>>, 1, TRUE, FALSE, m)
\* an exception nobody catches: traceback on stderr, status 1
Uncaught == Run(<< >>, 1, TRUE, TRUE, FALSE)
Success(m) == Run(<<ResultJson>>, 0, FALSE, FALSE, m)

\* hello.py whose handler catches nothing
HelloNoHandler(a) ==
  IF a.json.kind = "none" THEN Usage
  ELSE IF a.json.kind = "dict" THEN Success(FALSE)
  ELSE Uncaught

\* hello.py main(): only json.JSONDecodeError is caught
Hello(a) ==
  IF a.json.kind = "none" THEN Usage
  ELSE IF a.json.kind = "malformed" THEN Caught(FALSE)
  ELSE IF a.json.kind # "dict" THEN Uncaught
  ELSE Success(FALSE)

\* process.py main()
ProcessPy(a) ==
  IF a.json.kind \in {"none", "malformed"} THEN Caught(FALSE)
  ELSE IF a.json.kind = "dict" THEN Success(FALSE)
  ELSE IF a.json.kind = "list"
    THEN IF a.json.items = "dicts" THEN Success(FALSE) ELSE Caught(FALSE)
  ELSE Caught(FALSE)

\* predict.py main()
PredictPy(a) ==
  IF a.json.kind \in {"none", "malformed"} THEN Caught(FALSE)
  ELSE IF a.json.kind # "dict" THEN Caught(FALSE)
  ELSE IF ~Truthy(a.json.text) THEN Caught(FALSE)
  ELSE IF a.lib = "nofile" THEN Caught(FALSE)
  ELSE IF ~IsStr(a.json.text) \/ a.lib = "raises" THEN Caught(TRUE)
  ELSE Success(TRUE)

\* quick_sentiment.py main()
QuickSentiment(a) ==
  IF a.json.kind = "none" THEN Usage
  ELSE IF a.json.kind = "malformed" THEN Caught(FALSE)
  ELSE IF a.json.kind = "number" THEN Caught(FALSE)
  ELSE IF a.json.kind \in {"list", "string"} THEN Usage
  ELSE IF a.json.text = Absent THEN Usage
  ELSE IF ~Truthy(a.json.text) THEN Usage
  ELSE IF ~IsStr(a.json.text) THEN Caught(FALSE)
  ELSE IF Strip(a.json.text) = "" THEN Usage
  ELSE Success(FALSE)

\* train_model.py and exercise1-train.py main()
Train(a) ==
  IF ~a.path THEN Usage
  ELSE IF a.lib # "ok"
    THEN Run(<<ProgressText, ErrorJson>>, 1, TRUE, FALSE, FALSE)
  ELSE Run(<<ProgressText, ResultJson>>, 0, FALSE, FALSE, TRUE)

\* onnx_inference.py main(): int(sys.argv[4]) is outside the try
Onnx(a) ==
  IF ~a.path THEN Usage
  ELSE IF a.num = "garbage" THEN Uncaught
  ELSE IF a.lib # "ok" THEN Caught(a.lib = "raises")
  ELSE Success(TRUE)

\* detect_opencv.py: detect_faces returns an error object (imread gave None,
\* or an exception was caught inside), the script prints it and ends
\* normally; float()/int() of the optional arguments are unguarded
DetectOpenCv(a) ==
  IF ~a.path THEN Usage
  ELSE IF a.num = "garbage" THEN Uncaught
  ELSE IF a.lib = "nofile" THEN Run(<<ErrorJson>>, 0, FALSE, FALSE, FALSE)
  ELSE IF a.lib = "raises" THEN Run(<<ErrorJson>>, 0, TRUE, FALSE, TRUE)
  ELSE Success(TRUE)

\* detect_yolo.py: detect_objects catches FileNotFoundError and Exception and
\* returns an error object; float() of the optional argument is unguarded
DetectYolo(a) ==
  IF ~a.path THEN Usage
  ELSE IF a.num = "garbage" THEN Uncaught
  ELSE IF a.lib = "nofile" THEN Run(<<ErrorJson>>, 0, TRUE, FALSE, TRUE)
  ELSE IF a.lib = "raises" THEN Run(<<ErrorJson>>, 0, TRUE, FALSE, TRUE)
  ELSE Success(TRUE)

\* train_prophet.py main(): JSON on stdin
TrainProphet(a) ==
  IF a.json.kind \in {"none", "malformed"} THEN Caught(FALSE)
  ELSE IF a.json.kind # "list" \/ a.json.items # "dicts" THEN Caught(FALSE)
  ELSE IF a.lib # "ok" THEN Caught(TRUE)
  ELSE Success(TRUE)

NotExited == 0 - 1

CliIdle ==
  /\ script = "none"
  /\ argv = [json |-> NoInput, path |-> FALSE, num |-> "absent", lib |-> "ok"]
  /\ cpc = "idle"
  /\ out = << >>
  /\ exit_code = NotExited
  /\ raised = FALSE
  /\ traceback = FALSE
  /\ cmodel = FALSE

CliInit ==
  /\ script \in Scripts
  /\ argv \in CliInputs(script)
  /\ cpc = "start"
  /\ out = << >>
  /\ exit_code = NotExited
  /\ raised = FALSE
  /\ traceback = FALSE
  /\ cmodel = FALSE

Finish(r) ==
  /\ cpc' = "exited"
  /\ out' = r.out
  /\ exit_code' = r.exit
  /\ raised' = r.raised
  /\ traceback' = r.traceback
  /\ cmodel' = r.model
  /\ UNCHANGED <<script, argv>>
  /\ UNCHANGED <<wvars, fvars, pvars>>

HelloMain == cpc = "start" /\ script = "hello" /\ Finish(Hello(argv))
ProcessMain == cpc = "start" /\ script = "process" /\ Finish(ProcessPy(argv))
PredictMain == cpc = "start" /\ script = "predict" /\ Finish(PredictPy(argv))
QuickSentimentMain ==
  cpc = "start" /\ script = "quick_sentiment" /\ Finish(QuickSentiment(argv))
TrainModelMain == cpc = "start" /\ script = "train_model" /\ Finish(Train(argv))
Exercise1Main == cpc = "start" /\ script = "exercise1" /\ Finish(Train(argv))
OnnxMain == cpc = "start" /\ script = "onnx" /\ Finish(Onnx(argv))
DetectOpenCvMain ==
  cpc = "start" /\ script = "detect_opencv" /\ Finish(DetectOpenCv(argv))
DetectYoloMain == cpc = "start" /\ script = "detect_yolo" /\ Finish(DetectYolo(argv))
TrainProphetMain ==
  cpc = "start" /\ script = "train_prophet" /\ Finish(TrainProphet(argv))

(***************************************************************************)
(* Flask REST server.                                                      *)
(***************************************************************************)
MaxTexts == 2

\* the 'texts' member of a request body
NoTexts == [k |-> "absent", items |-> << >>]
TextsString == [k |-> "string", items |-> << >>]
TextsList(l) == [k |-> "list", items |-> l]
TextLists == UNION {[1..n -> TextValues \ {Absent}] : n \in 1..MaxTexts}

\* request bodies, by what request.get_json() makes of them
Body(k, t, l) == [kind |-> k, text |-> t, texts |-> l]
NoBody == Body("none", Absent, NoTexts)
Bodies ==
  {Body(k, Absent, NoTexts) : k \in {"missing", "malformed", "null", "number", "list"}}
  \cup {Body("dict", t, NoTexts) : t \in TextValues}
  \cup {Body("dict", Absent, TextsString)}
  \cup {Body("dict", Absent, TextsList(l)) : l \in TextLists}

Resp(st, e, p, m) == [status |-> st, error |-> e, predictions |-> p, model |-> m]
NoResp == Resp(0, FALSE, << >>, FALSE)
NoExchange == [body |-> NoBody, resp |-> NoResp]

\* one entry of a response: the classifier applied to the vectorized text
Prediction(t) ==
  [text |-> t, sentiment |-> ModelSentiment(t), confidence |-> ModelConfidence(t)]

\* request.get_json(): raises BadRequest on an unparseable body; on a body
\* that is missing or not declared as JSON it returns None or raises
\* UnsupportedMediaType, depending on the installed Flask (strict)
GetJsonRaises(b, strict) ==
  b.kind = "malformed" \/ (b.kind = "missing" /\ strict)

\* predict(): lines 58-89
FlaskPredict(b, strict) ==
  IF GetJsonRaises(b, strict) THEN Resp(500, TRUE, << >>, FALSE)
  ELSE IF b.kind \in {"missing", "null"} THEN Resp(400, TRUE, << >>, FALSE)
  ELSE IF b.kind = "number" THEN Resp(500, TRUE, << >>, FALSE)
  ELSE IF b.kind = "list" \/ b.text = Absent THEN Resp(400, TRUE, << >>, FALSE)
  ELSE IF ~Truthy(b.text) THEN Resp(400, TRUE, << >>, FALSE)
  ELSE IF ~IsStr(b.text) THEN Resp(500, TRUE, << >>, FALSE)
  ELSE IF Strip(b.text) = "" THEN Resp(400, TRUE, << >>, FALSE)
  ELSE Resp(200, FALSE, <<Prediction(b.text)>>, TRUE)

\* predict_batch(): lines 95-123
FlaskPredictBatch(b, strict) ==
  IF GetJsonRaises(b, strict) THEN Resp(500, TRUE, << >>, FALSE)
  ELSE IF b.kind \in {"missing", "null"} THEN Resp(400, TRUE, << >>, FALSE)
  ELSE IF b.kind = "number" THEN Resp(500, TRUE, << >>, FALSE)
  ELSE IF b.kind = "list" \/ b.texts.k = "absent" THEN Resp(400, TRUE, << >>, FALSE)
  ELSE IF b.texts.k # "list" THEN Resp(400, TRUE, << >>, FALSE)
  ELSE IF \E n \in 1..Len(b.texts.items) : ~IsStr(b.texts.items[n])
    THEN Resp(500, TRUE, << >>, TRUE)
  ELSE Resp(200, FALSE,
            [n \in 1..Len(b.texts.items) |-> Prediction(b.texts.items[n])], TRUE)

FlaskIdle ==
  /\ fpc = "idle"
  /\ fenv = "ok"
  /\ classifier = "None"
  /\ vectorizer = "None"
  /\ loads = 0
  /\ health = "none"
  /\ single = NoExchange
  /\ batch = NoExchange

FlaskInit ==
  /\ fpc = "init"
  /\ fenv \in {"ok", "nomodel", "novectorizer"}
  /\ classifier = "None"
  /\ vectorizer = "None"
  /\ loads = 0
  /\ health = "none"
  /\ single = NoExchange
  /\ batch = NoExchange

\* __main__: load_models(), then app.run
LoadModels ==
  /\ UNCHANGED <<wvars, cvars, pvars>>
  /\ fpc = "init"
  /\ loads' = loads + 1
  /\ IF fenv = "nomodel"
       THEN /\ fpc' = "dead"
            /\ UNCHANGED <<classifier, vectorizer>>
     ELSE IF fenv = "novectorizer"
       THEN /\ fpc' = "dead"
            /\ classifier' = "loaded"
            /\ UNCHANGED vectorizer
     ELSE /\ fpc' = "serving"
          /\ classifier' = "loaded"
          /\ vectorizer' = "loaded"
  /\ UNCHANGED <<fenv, health, single, batch>>

\* GET /health
HealthCheck ==
  /\ UNCHANGED <<wvars, cvars, pvars>>
  /\ fpc = "serving"
  /\ health' = IF classifier # "None" THEN "model_loaded" ELSE "model_missing"
  /\ UNCHANGED <<fpc, fenv, classifier, vectorizer, loads, single, batch>>

\* POST /predict, calling load_models again in the request
PredictRouteReloading ==
  /\ UNCHANGED <<wvars, cvars, pvars>>
  /\ fpc = "serving"
  /\ loads' = loads + 1
  /\ \E b \in Bodies, strict \in BOOLEAN :
       single' = [body |-> b, resp |-> FlaskPredict(b, strict)]
  /\ UNCHANGED <<fpc, fenv, classifier, vectorizer, health, batch>>

\* POST /predict
PredictRoute ==
  /\ UNCHANGED <<wvars, cvars, pvars>>
  /\ fpc = "serving"
  /\ \E b \in Bodies, strict \in BOOLEAN :
       single' = [body |-> b, resp |-> FlaskPredict(b, strict)]
  /\ UNCHANGED <<fpc, fenv, classifier, vectorizer, loads, health, batch>>

\* POST /predict/batch
PredictBatchRoute ==
  /\ UNCHANGED <<wvars, cvars, pvars>>
  /\ fpc = "serving"
  /\ \E b \in Bodies, strict \in BOOLEAN :
       batch' = [body |-> b, resp |-> FlaskPredictBatch(b, strict)]
  /\ UNCHANGED <<fpc, fenv, classifier, vectorizer, loads, health, single>>

(***************************************************************************)
(* Computations of the scripts, on the values they are given.              *)
(***************************************************************************)
Pending == [kind |-> "pending"]

\* exercise1-train.py: the three models in the order of the list `models`
ModelNames == <<"Naive Bayes", "Logistic Regression", "Linear SVM">>
\* the F1 scores of the three results, in steps of 1 / MaxF1
F1Scores == [1..3 -> 0..MaxF1]
NoModel == 0

\* the loop `for result in results: if result['f1'] > best_score: ...`
\* started with best_model = None, best_score = 0
RECURSIVE BestFrom(_, _, _, _)
BestFrom(f1, n, best_model, best_score) ==
  IF n > Len(f1) THEN best_model
  ELSE IF f1[n] > best_score THEN BestFrom(f1, n + 1, n, f1[n])
  ELSE BestFrom(f1, n + 1, best_model, best_score)

BestModel(f1) == BestFrom(f1, 1, NoModel, 0)

\* main() from the comparison on: best_model['name'] raises TypeError when
\* best_model is None, which the handler reports; otherwise the model is
\* dumped to sentiment_model.pkl and named as 'best_model' in the output
SelectAndSave(f1) ==
  LET b == BestModel(f1)
  IN  IF b = NoModel
        THEN [kind |-> "run", exit |-> 1,
              error |-> "'NoneType' object is not subscriptable",
              saved |-> << >>, best_model |-> Absent]
      ELSE [kind |-> "run", exit |-> 0, error |-> Absent,
            saved |-> <<ModelNames[b]>>, best_model |-> ModelNames[b]]

\* onnx_inference.py: probabilities over n classes (as weights 1..MaxProb),
\* the number of labels in the labels file, and top_k
ClassifyInputs ==
  UNION {[probs : [1..n -> 1..MaxProb], labels : {n - 1, n}, top_k : 0..MaxTopK] :
           n \in 1..MaxClasses}

\* np.argsort(probabilities): the indices in ascending order of probability;
\* the default sort is not stable, so equal probabilities come in any order
ArgSorts(p) ==
  {s \in [1..Len(p) -> 1..Len(p)] :
     /\ \A i, j \in 1..Len(p) : i # j => s[i] # s[j]
     /\ \A i \in 1..(Len(p) - 1) : p[s[i]] <= p[s[i + 1]]}

\* a[-k:] for k >= 0: a[-0:] is a[0:], the whole array
LastSlice(a, k) ==
  IF k = 0 \/ k >= Len(a) THEN a ELSE SubSeq(a, Len(a) - k + 1, Len(a))

\* a[::-1]
Reverse(a) == [i \in 1..Len(a) |-> a[Len(a) + 1 - i]]

\* the loop over top_indices: an index without a label is skipped
RECURSIVE BuildResults(_, _, _)
BuildResults(top, p, nlabels) ==
  IF top = << >> THEN << >>
  ELSE (IF Head(top) <= nlabels
          THEN <<[label |-> Head(top), confidence |-> p[Head(top)]]>>
          ELSE << >>)
       \o BuildResults(Tail(top), p, nlabels)

\* classify_image from the probabilities on, for one outcome of argsort
TopPredictions(order, p, nlabels, top_k) ==
  BuildResults(Reverse(LastSlice(order, top_k)), p, nlabels)

\* process.py: a purchase with or without an 'amount'
NoAmount == [has |-> FALSE, amount |-> 0]
Purchase(a) == [has |-> TRUE, amount |-> a]
Repeat(x, n) == [i \in 1..n |-> x]

\* purchase lists of up to MaxPurchases purchases of 100, of 600 or without
\* amount; process_user_data reads the list through sum and len only, so
\* they are listed up to order
PurchaseLists ==
  {Repeat(NoAmount, c[1]) \o Repeat(Purchase(100), c[2]) \o Repeat(Purchase(600), c[3]) :
     c \in {t \in (0..MaxPurchases) \X (0..MaxPurchases) \X (0..MaxPurchases) :
              t[1] + t[2] + t[3] <= MaxPurchases}}

User(i, pl) == [id |-> i, purchases |-> pl]

\* the users of the array inputs: no purchases, New, Regular by the total
\* alone, and VIP
BatchPurchases ==
  {<< >>, Repeat(Purchase(100), 5), <<Purchase(600), Purchase(600)>>,
   Repeat(Purchase(100), MaxPurchases)}

\* argv[1] decoded: an object (one user) or an array of users
ProcessInputs ==
  {[kind |-> "dict", users |-> <<User(1, pl)>>] : pl \in PurchaseLists}
  \cup {[kind |-> "list", users |-> [n \in 1..Len(l) |-> User(n, l[n])]] :
          l \in UNION {[1..k -> BatchPurchases] : k \in 0..MaxUsers}}

\* sum(p.get('amount', 0) for p in purchases)
RECURSIVE TotalSpent(_)
TotalSpent(purchases) ==
  IF purchases = << >> THEN 0
  ELSE (IF Head(purchases).has THEN Head(purchases).amount ELSE 0)
       + TotalSpent(Tail(purchases))

\* round(total / n, 2) in hundredths, for integers total >= 0 and n > 0
RoundedAverage(total, n) == (200 * total + n) \div (2 * n)

\* generate_recommendations(segment)
GenerateRecommendations(segment) ==
  CASE segment = "VIP" -> <<"Premium Bundle", "Exclusive Access", "Priority Support">>
    [] segment = "Regular" -> <<"Popular Items", "Seasonal Deals", "Member Benefits">>
    [] segment = "New" -> <<"Starter Pack", "Welcome Offer", "Getting Started Guide">>
    [] OTHER -> << >>

\* process_user_data with the comparisons made inclusive
ProcessUserDataInclusive(user) ==
  LET purchases == user.purchases
      total_spent == TotalSpent(purchases)
      avg_purchase == IF purchases # << >>
                        THEN RoundedAverage(total_spent, Len(purchases)) ELSE 0
      segment == IF total_spent >= 1000 /\ Len(purchases) >= 10 THEN "VIP"
                 ELSE IF total_spent >= 500 THEN "Regular"
                 ELSE "New"
  IN  [user_id |-> user.id, segment |-> segment,
       total_purchases |-> Len(purchases), total_spent |-> total_spent,
       avg_purchase_value |-> avg_purchase,
       recommendations |-> GenerateRecommendations(segment)]

\* process_user_data(user); avg_purchase_value is in hundredths
ProcessUserData(user) ==
  LET purchases == user.purchases
      total_spent == TotalSpent(purchases)
      avg_purchase == IF purchases # << >>
                        THEN RoundedAverage(total_spent, Len(purchases)) ELSE 0
      segment == IF total_spent > 1000 /\ Len(purchases) > 10 THEN "VIP"
                 ELSE IF total_spent > 500 THEN "Regular"
                 ELSE "New"
  IN  [user_id |-> user.id, segment |-> segment,
       total_purchases |-> Len(purchases), total_spent |-> total_spent,
       avg_purchase_value |-> avg_purchase,
       recommendations |-> GenerateRecommendations(segment)]

\* main(): one user, or [process_user_data(user) for user in input_data]
ProcessInput(input) ==
  [kind |-> input.kind,
   results |-> [n \in 1..Len(input.users) |-> ProcessUserData(input.users[n])]]

PureIdle ==
  /\ fn = "none"
  /\ arg = Pending
  /\ ret = Pending

PureInit ==
  /\ fn \in {"exercise1", "classify_image", "process"}
  /\ arg \in CASE fn = "exercise1" -> F1Scores
               [] fn = "classify_image" -> ClassifyInputs
               [] fn = "process" -> ProcessInputs
  /\ ret = Pending

\* exercise1-train.py: choose the best of the three results and save it
SelectBestModel ==
  /\ fn = "exercise1" /\ ret = Pending
  /\ ret' = SelectAndSave(arg)
  /\ UNCHANGED <<fn, arg>>
  /\ UNCHANGED <<wvars, cvars, fvars>>

\* onnx_inference.py: classify_image from the probabilities on
ClassifyImage ==
  /\ fn = "classify_image" /\ ret = Pending
  /\ \E order \in ArgSorts(arg.probs) :
       ret' = [kind |-> "list",
               items |-> TopPredictions(order, arg.probs, arg.labels, arg.top_k)]
  /\ UNCHANGED <<fn, arg>>
  /\ UNCHANGED <<wvars, cvars, fvars>>

\* process.py: main() on the decoded input
ProcessUsers ==
  /\ fn = "process" /\ ret = Pending
  /\ ret' = ProcessInput(arg)
  /\ UNCHANGED <<fn, arg>>
  /\ UNCHANGED <<wvars, cvars, fvars>>

(***************************************************************************)
(* Specifications.                                                         *)
(***************************************************************************)
WorkerIdle ==
  /\ queue = << >>
  /\ store = [k \in Keys |-> NoRec]
  /\ active = {}
  /\ pc = [w \in Workers |-> "stopped"]
  /\ task = [w \in Workers |-> Unbound]
  /\ task_id = [w \in Workers |-> NoId]
  /\ task_data = [w \in Workers |-> NoPayload]
  /\ exc = [w \in Workers |-> NoMsg]
  /\ modelLoaded = "None"
  /\ cur = [w \in Workers |-> NoPayload]
  /\ produced = {}
  /\ poppedBy = [i \in Ids |-> {}]
  /\ handled = [i \in Ids |-> 0]
  /\ writes = {}
  /\ modelCalls = {}
  /\ callbacks = {}

CliNext ==
  \/ HelloMain
  \/ ProcessMain
  \/ PredictMain
  \/ QuickSentimentMain
  \/ TrainModelMain
  \/ Exercise1Main
  \/ OnnxMain
  \/ DetectOpenCvMain
  \/ DetectYoloMain
  \/ TrainProphetMain

FlaskNext ==
  \/ LoadModels
  \/ HealthCheck
  \/ PredictRoute
  \/ PredictBatchRoute

\* one worker process
Init ==
  WorkerInit({1}, Payloads, ModuleStates, MaxQueue) /\ CliIdle /\ FlaskIdle /\ PureIdle
Next ==
  \/ \E w \in Workers : Pop(w)
  \/ \E w \in Workers : PopTimeout(w)
  \/ \E w \in Workers : PopRaises(w)
  \/ \E w \in Workers : Receive(w)
  \/ \E w \in Workers : Process(w)
  \/ \E w \in Workers : Complete(w)
  \/ \E w \in Workers : Except(w)
  \/ \E w \in Workers : Interrupt(w)
Spec == Init /\ [][Next]_vars

\* one worker process that is left to run: the store stays reachable (brpop
\* does not raise) and nobody interrupts it; the loop of main() takes its
\* next step whenever it has one
NextUndisturbed ==
  \/ \E w \in Workers : Pop(w)
  \/ \E w \in Workers : PopTimeout(w)
  \/ \E w \in Workers : Receive(w)
  \/ \E w \in Workers : Process(w)
  \/ \E w \in Workers : Complete(w)
  \/ \E w \in Workers : Except(w)
SpecLive == Init /\ [][NextUndisturbed]_vars /\ WF_vars(NextUndisturbed)

\* several worker processes polling the same queue
InitWorkers ==
  /\ WorkerInit(Workers, FewPayloads, {"loaded"}, MaxShared)
  /\ CliIdle /\ FlaskIdle /\ PureIdle
SpecWorkers == InitWorkers /\ [][Next]_vars

\* one run of one command line script
InitCli == WorkerIdle /\ CliInit /\ FlaskIdle /\ PureIdle
SpecCli == InitCli /\ [][CliNext]_vars

\* the REST server
InitFlask == WorkerIdle /\ CliIdle /\ FlaskInit /\ PureIdle
SpecFlask == InitFlask /\ [][FlaskNext]_vars

\* the computations of the scripts
PureNext ==
  \/ SelectBestModel
  \/ ClassifyImage
  \/ ProcessUsers

InitPure == WorkerIdle /\ CliIdle /\ FlaskIdle /\ PureInit
SpecPure == InitPure /\ [][PureNext]_vars

(***************************************************************************)
(* Properties.                                                             *)
(***************************************************************************)
IsEntry(k) == store[k].kind = "entry"
StatusOf(i) == IF IsEntry(TaskKey(i)) THEN store[TaskKey(i)].val.status ELSE Absent
InQueue(i) == \E n \in 1..Len(queue) : queue[n].id = i

\* C1: once the stored record task:<id> has status completed or failed, no
\* later step of any worker changes that record.
C1_TerminalRecordFrozen ==
  [][\A i \in Ids :
       StatusOf(i) \in {"completed", "failed"}
         => store'[TaskKey(i)] = store[TaskKey(i)]]_vars

\* C2: when handling a popped task that carries an id raised, the handler
\* writes task:<id> as the record of that task, with status failed and the
\* exception message as error (for an unknown type: 'Unknown task type: <type>').
C2_FailedRecordWritten ==
  [][\A w \in Workers :
       (pc[w] = "except" /\ cur[w].kind = "object" /\ cur[w].id # NoId)
         => /\ (cur[w].type \notin
                  {"sentiment_analysis", "image_classification", Absent}
                /\ cur[w].data.kind # Absent)
                 => exc[w] = <<"Unknown task type: ", cur[w].type>>
            /\ pc'[w] = "pop"
                 => LET e == store'[TaskKey(cur[w].id)]
                    IN  /\ e.kind = "entry"
                        /\ e.ttl = TTL
                        /\ e.val.status = "failed"
                        /\ e.val.error = exc[w]
                        /\ e.val.id = cur[w].id
                        /\ e.val.type = cur[w].type
                        /\ e.val.data = cur[w].data]_vars

C2_Witness ==
  \E w \in Workers, i \in Ids :
    /\ pc[w] = "pop"
    /\ cur[w].kind = "object" /\ cur[w].id = i /\ cur[w].type = "training"
    /\ StatusOf(i) = "failed"
    /\ store[TaskKey(i)].val.error = <<"Unknown task type: ", "training">>

\* C3: no worker step adds to the queue, process_task runs at most once per
\* task, and a task whose record says failed is not processed again.
C3_NoRetryNoRequeue ==
  [][/\ \E n \in 0..Len(queue) : queue' = SubSeq(queue, 1, n)
     /\ \A i \in Ids :
          /\ handled'[i] <= 1
          /\ StatusOf(i) = "failed" => handled'[i] = handled[i]]_vars

C3_Witness ==
  \E w \in Workers, i \in Ids :
    /\ pc[w] = "pop" /\ queue = << >> /\ cur[w].kind = "malformed"
    /\ StatusOf(i) = "failed" /\ handled[i] = 1

\* C4: with several workers and an atomic pop, every queued task is either
\* still queued or was popped by exactly one worker, its handler ran at most
\* once, and every task:<id> / result:<id> write was made by the worker that
\* popped task <id>.
C4_ExactlyOneWorker ==
  /\ \A i \in Ids :
       /\ i \in produced => (InQueue(i) <=> poppedBy[i] = {})
       /\ i \notin produced => (~InQueue(i) /\ poppedBy[i] = {})
       /\ Cardinality(poppedBy[i]) <= 1
       /\ handled[i] <= 1
  /\ \A x \in writes : poppedBy[x[2][2]] = {x[1]}

C4_Witness ==
  /\ queue = << >>
  /\ \E v, w \in Workers :
       /\ v # w
       /\ \E i, j \in Ids :
            /\ i # j /\ poppedBy[i] = {v} /\ poppedBy[j] = {w}
            /\ {<<v, TaskKey(i)>>, <<v, ResultKey(i)>>,
                <<w, TaskKey(j)>>, <<w, ResultKey(j)>>} \subseteq writes
            /\ StatusOf(i) = "failed" /\ StatusOf(j) = "completed"

HasError(o) == \E n \in 1..Len(o) : o[n].kind = "json" /\ o[n].error
HasResult(o) == \E n \in 1..Len(o) : o[n].kind = "json" /\ ~o[n].error

\* C5: a run of a command line script that printed JSON with an 'error' key
\* exits with a non-zero status (so a run that exits with 0 printed none).
C5_ErrorMeansNonZeroExit ==
  (cpc = "exited" /\ HasError(out)) => exit_code # 0

\* C6: every exception raised during a run of a script is reported as printed
\* JSON with an 'error' key followed by a non-zero exit; none escapes uncaught.
C6_EveryExceptionReported ==
  (cpc = "exited" /\ raised)
    => (~traceback /\ HasError(out) /\ exit_code \notin {0, NotExited})

\* C7: in the scripts that take JSON input, a malformed JSON input yields
\* printed JSON with an 'error' key, a non-zero exit and no success result.
C7_MalformedJsonRejected ==
  (cpc = "exited" /\ script \in JsonScripts /\ argv.json.kind = "malformed")
    => (HasError(out) /\ ~HasResult(out) /\ exit_code \notin {0, NotExited})

C7_Witness ==
  /\ cpc = "exited" /\ script = "hello" /\ argv.json.kind = "malformed"
  /\ out = <<ErrorJson>> /\ exit_code = 1 /\ ~traceback

\* C8: when the required input field ('text' / 'texts') is absent, the run,
\* request or task ends in an error outcome and no model call is made in it:
\* in predict.py, in the two Flask routes and in the worker's sentiment
\* handler.
C8_MissingFieldRejected ==
  /\ (cpc = "exited" /\ script = "predict" /\ argv.json.kind = "dict"
        /\ argv.json.text = Absent)
       => (HasError(out) /\ exit_code \notin {0, NotExited} /\ ~cmodel)
  /\ (single.body.kind = "dict" /\ single.body.text = Absent)
       => (single.resp.status >= 400 /\ ~single.resp.model)
  /\ (batch.body.kind = "dict" /\ batch.body.texts.k = "absent")
       => (batch.resp.status >= 400 /\ ~batch.resp.model)
  /\ \A i \in Ids :
       (/\ IsEntry(TaskKey(i))
        /\ store[TaskKey(i)].val.id = i
        /\ store[TaskKey(i)].val.type = "sentiment_analysis"
        /\ store[TaskKey(i)].val.data = DictNoText)
         => /\ StatusOf(i) # "completed"
            /\ i \notin modelCalls
            /\ ~IsEntry(ResultKey(i))

\* what C9 calls a request that must be answered 400
InvalidSingle(b) ==
  \/ b.kind # "dict"
  \/ b.text = Absent
  \/ ~IsStr(b.text)
  \/ Strip(b.text) = ""
InvalidBatch(b) == b.kind # "dict" \/ b.texts.k # "list"

\* C9: /predict and /predict/batch answer 400 when the body is missing, not
\* parseable, lacks the field or carries an invalid value, and 500 only when
\* the model call fails after validation passed.
C9_InvalidRequestIs400 ==
  /\ single # NoExchange
       => /\ InvalidSingle(single.body) => single.resp.status = 400
          /\ single.resp.status = 500
               => (~InvalidSingle(single.body) /\ single.resp.model)
  /\ batch # NoExchange
       => /\ InvalidBatch(batch.body) => batch.resp.status = 400
          /\ batch.resp.status = 500
               => (~InvalidBatch(batch.body) /\ batch.resp.model)

\* C10: for every text t, /predict with t and /predict/batch with [t] both
\* reject or both succeed, and then agree on sentiment and confidence.
C10_BatchAgreesWithSingle ==
  \A t \in {x \in TextValues : IsStr(x)} :
    (/\ single.body = Body("dict", t, NoTexts)
     /\ batch.body = Body("dict", Absent, TextsList(<<t>>)))
      => /\ single.resp.status = 200 <=> batch.resp.status = 200
         /\ single.resp.status = 200
              => /\ batch.resp.predictions[1].sentiment
                      = single.resp.predictions[1].sentiment
                 /\ batch.resp.predictions[1].confidence
                      = single.resp.predictions[1].confidence

\* C11: classifier and vectorizer are assigned only by load_models, which runs
\* exactly once and before the first request is served; no /health, /predict
\* or /predict/batch request, answered 200, 400 or 500, loads them again or
\* changes them.
C11_ModelLoadedOnceAtStartup ==
  [][/\ (classifier' # classifier \/ vectorizer' # vectorizer \/ loads' # loads)
          => /\ fpc = "init" /\ loads = 0
             /\ health = "none" /\ single = NoExchange /\ batch = NoExchange
     /\ (health' # health \/ single' # single \/ batch' # batch)
          => /\ loads = 1 /\ loads' = 1
             /\ classifier = "loaded" /\ vectorizer = "loaded"
             /\ classifier' = classifier /\ vectorizer' = vectorizer]_vars

C11_Witness ==
  /\ fpc = "serving" /\ loads = 1
  /\ classifier = "loaded" /\ vectorizer = "loaded"
  /\ health = "model_loaded"
  /\ single # NoExchange /\ single.resp.status = 200
  /\ batch # NoExchange /\ batch.resp.status # 200

\* the ids whose record worker w wrote and that are stored as processing
ProcessingOf(w) ==
  {i \in Ids : <<w, TaskKey(i)>> \in writes /\ StatusOf(i) = "processing"}

\* C12: a worker never polls or holds a freshly popped payload while a task it
\* popped earlier is still stored as processing; the only record of its own
\* that can be processing is the one of the task it is handling, so there is
\* at most one.
C12_OneTaskAtATime ==
  \A w \in Workers :
    /\ Cardinality(ProcessingOf(w)) <= 1
    /\ ProcessingOf(w) \subseteq {task_id[w]}
    /\ pc[w] \in {"pop", "decode"} => ProcessingOf(w) = {}

C12_Witness ==
  \E w \in Workers, i, j \in Ids :
    /\ i # j
    /\ poppedBy[i] = {w} /\ poppedBy[j] = {w}
    /\ StatusOf(i) \in {"completed", "failed"}
    /\ pc[w] = "process" /\ task_id[w] = j /\ StatusOf(j) = "processing"

\* C13: for every task whose payload provides a callback, once the worker has
\* stored the task's result and finished that iteration, it has sent the
\* callback.
C13_CallbackSent ==
  \A w \in Workers, i \in Ids :
    (/\ <<w, ResultKey(i)>> \in writes
     /\ IsEntry(TaskKey(i))
     /\ store[TaskKey(i)].val.id = i
     /\ store[TaskKey(i)].val.callback # Absent
     /\ StatusOf(i) = "completed"
     /\ pc[w] = "pop")
      => <<w, i>> \in callbacks

\* C14: when the sentiment model is not loaded (joblib missing or model file
\* missing), handling a sentiment_analysis task never raises: the handler's
\* result is stored with sentiment positive, confidence 0.85 and the note
\* 'Simulated (model not loaded)', and the task goes on to completed.
C14_SimulatedWhenNotLoaded ==
  [][\A w \in Workers :
       (/\ pc[w] = "process" /\ pc'[w] # "process"
        /\ task[w].type = "sentiment_analysis"
        /\ modelLoaded # "loaded")
         => /\ pc'[w] = "complete"
            /\ LET e == store'[ResultKey(task_id[w])]
               IN  /\ e.kind = "entry"
                   /\ e.val.sentiment = "positive"
                   /\ e.val.confidence = 85
                   /\ e.val.note = "Simulated (model not loaded)"]_vars

\* the result of the image_classification branch: {'label': 'cat', 'confidence': 0.92}
CatResult ==
  [kind |-> "result", text |-> Absent, sentiment |-> Absent,
   confidence |-> 92, note |-> Absent, label |-> "cat"]

C16_KeyMatchesRecord ==
  \A k \in Ids :
    /\ IsEntry(TaskKey(k))
         => /\ store[TaskKey(k)].ttl = 3600
            /\ store[TaskKey(k)].val.id = k
    /\ IsEntry(ResultKey(k))
         => /\ store[ResultKey(k)].ttl = 3600
            /\ <<"result", k>> \in {x[2] : x \in writes}
            /\ handled[k] = 1

\* the earliest model, in the order of ModelNames, whose F1 score is the maximum
EarliestMaximum(f1) ==
  CHOOSE n \in 1..3 :
    /\ \A m \in 1..3 : f1[m] <= f1[n]
    /\ \A m \in 1..(n - 1) : f1[m] < f1[n]

\* C17: for every combination of the three F1 scores, exercise1-train.py
\* saves exactly one model to sentiment_model.pkl and reports it as
\* 'best_model', and it is the one with the maximal F1 score, the earliest of
\* Naive Bayes, Logistic Regression, Linear SVM on ties.
C17_BestModelSaved ==
  (fn = "exercise1" /\ ret # Pending)
    => /\ ret.exit = 0
       /\ ret.saved = <<ModelNames[EarliestMaximum(arg)]>>
       /\ ret.best_model = ModelNames[EarliestMaximum(arg)]

\* what holds of C17 on the runs that succeed
C17_SuccessfulRuns ==
  (fn = "exercise1" /\ ret # Pending /\ ret.exit = 0)
    => /\ ret.saved = <<ModelNames[EarliestMaximum(arg)]>>
       /\ ret.best_model = ModelNames[EarliestMaximum(arg)]

\* C18: with a label for every class and top_k >= 0, classify_image returns
\* exactly min(top_k, n) entries, of distinct classes, none with a lower
\* probability than a class left out, in order of non-increasing confidence.
C18_TopKPredictions ==
  (fn = "classify_image" /\ ret # Pending /\ arg.labels = Len(arg.probs))
    => LET r == ret.items
           n == Len(arg.probs)
           chosen == {r[i].label : i \in 1..Len(r)}
       IN  /\ Len(r) = IF arg.top_k < n THEN arg.top_k ELSE n
           /\ Cardinality(chosen) = Len(r)
           /\ \A i \in 1..Len(r) : r[i].confidence = arg.probs[r[i].label]
           /\ \A c \in chosen, d \in (1..n) \ chosen : arg.probs[c] >= arg.probs[d]
           /\ \A i \in 1..(Len(r) - 1) : r[i].confidence >= r[i + 1].confidence

\* what holds of C18 for top_k >= 1
C18_PositiveTopK ==
  (fn = "classify_image" /\ ret # Pending /\ arg.labels = Len(arg.probs)
     /\ arg.top_k >= 1)
    => LET r == ret.items
           n == Len(arg.probs)
           chosen == {r[i].label : i \in 1..Len(r)}
       IN  /\ Len(r) = IF arg.top_k < n THEN arg.top_k ELSE n
           /\ Cardinality(chosen) = Len(r)
           /\ \A c \in chosen, d \in (1..n) \ chosen : arg.probs[c] >= arg.probs[d]
           /\ \A i \in 1..(Len(r) - 1) : r[i].confidence >= r[i + 1].confidence

\* the total of a purchase list, counted per amount
SpentByCount(pl) ==
  100 * Cardinality({i \in 1..Len(pl) : pl[i].has /\ pl[i].amount = 100})
  + 600 * Cardinality({i \in 1..Len(pl) : pl[i].has /\ pl[i].amount = 600})

\* C19: every user gets exactly one segment: VIP iff total_spent > 1000 and
\* more than 10 purchases, otherwise Regular iff total_spent > 500, otherwise
\* New; avg_purchase_value is 0 without purchases; the recommendations are the
\* three items of the segment; an array input gives an array of the same
\* length and order whose elements are the single-user results.
C19_SegmentsAndBatch ==
  (fn = "process" /\ ret # Pending)
    => /\ ret.kind = arg.kind
       /\ Len(ret.results) = Len(arg.users)
       /\ \A n \in 1..Len(arg.users) :
            LET u == arg.users[n]
                r == ret.results[n]
                total == SpentByCount(u.purchases)
                count == Len(u.purchases)
                vip == total > 1000 /\ count > 10
            IN  /\ r.user_id = u.id
                /\ r.total_purchases = count
                /\ r.total_spent = total
                /\ r.segment \in {"VIP", "Regular", "New"}
                /\ r.segment = "VIP" <=> vip
                /\ r.segment = "Regular" <=> (~vip /\ total > 500)
                /\ r.segment = "New" <=> (~vip /\ total <= 500)
                /\ count = 0 => r.avg_purchase_value = 0
                /\ count > 0 => /\ 2 * count * r.avg_purchase_value <= 200 * total + count
                                /\ 2 * count * r.avg_purchase_value > 200 * total - count
                /\ r.recommendations =
                     IF r.segment = "VIP"
                       THEN <<"Premium Bundle", "Exclusive Access", "Priority Support">>
                     ELSE IF r.segment = "Regular"
                       THEN <<"Popular Items", "Seasonal Deals", "Member Benefits">>
                     ELSE <<"Starter Pack", "Welcome Offer", "Getting Started Guide">>
                /\ \A one \in ProcessInputs :
                     (one.kind = "dict" /\ one.users[1].purchases = u.purchases)
                       => r = [ProcessInput(one).results[1] EXCEPT !.user_id = u.id]

C19_Witness ==
  /\ fn = "process" /\ ret # Pending
  /\ arg.kind = "list" /\ Len(arg.users) = 2
  /\ ret.results[1].segment = "VIP" /\ ret.results[1].user_id = 1
  /\ ret.results[1].total_purchases = 11 /\ ret.results[1].total_spent = 1100
  /\ ret.results[2].segment = "New" /\ ret.results[2].user_id = 2
  /\ ret.results[2].total_purchases = 0
  /\ ret.results[2].avg_purchase_value = 0

\* C20: whenever task:<id> is marked completed, result:<id> was written in an
\* earlier step by the same worker; result:<id> is written only by the step in
\* which the handler of task <id> returned, which happens at most once, and a
\* step in which the handler raised leaves result:<id> unwritten.
C20_ResultBeforeCompleted ==
  [][/\ \A w \in Workers :
          (pc[w] = "complete" /\ pc'[w] = "pop")
            => /\ store'[TaskKey(task_id[w])].val.status = "completed"
               /\ <<w, ResultKey(task_id[w])>> \in writes
               /\ store[ResultKey(task_id[w])].kind = "entry"
     /\ \A i \in Ids :
          (store'[TaskKey(i)].kind = "entry"
             /\ store'[TaskKey(i)].val.status = "completed")
            => /\ store'[ResultKey(i)].kind = "entry"
               /\ \E w \in Workers : <<w, ResultKey(i)>> \in writes'
     /\ \A i \in Ids :
          store'[ResultKey(i)] # store[ResultKey(i)]
            => /\ handled[i] = 0 /\ handled'[i] = 1
               /\ \E w \in Workers :
                    /\ pc[w] = "process" /\ pc'[w] = "complete"
                    /\ task_id[w] = i
                    /\ ProcessTask(task[w], modelLoaded).ok
     /\ \A w \in Workers :
          (pc[w] = "process" /\ pc'[w] = "except")
            => /\ store'[ResultKey(task_id[w])].kind = "none"
               /\ handled'[task_id[w]] = 1
               /\ \A v \in Workers : <<v, ResultKey(task_id[w])>> \notin writes']_vars

C20_Witness ==
  \E w \in Workers, i, j \in Ids :
    /\ i # j /\ pc[w] = "pop"
    /\ StatusOf(i) = "completed" /\ IsEntry(ResultKey(i))
    /\ {<<w, ResultKey(i)>>, <<w, TaskKey(i)>>} \subseteq writes
    /\ StatusOf(j) = "failed" /\ handled[j] = 1
    /\ ~IsEntry(ResultKey(j)) /\ <<w, ResultKey(j)>> \notin writes

\* a queued payload that is valid JSON with id, type and data
WellFormedQueued(i) ==
  \E n \in 1..Len(queue) :
    /\ queue[n].kind = "object" /\ queue[n].id = i
    /\ queue[n].type # Absent /\ queue[n].data.kind # Absent

\* C21: with the store reachable, handlers terminating and no interrupt, every
\* well-formed task on the queue is eventually popped and its record
\* task:<id> eventually has status completed or failed, whatever payloads
\* were handled before it.
C21_EveryTaskHandled ==
  \A i \in Ids :
    WellFormedQueued(i)
      ~> (poppedBy[i] # {} /\ StatusOf(i) \in {"completed", "failed"})

\* C22: a poll that times out (the list is empty and brpop returns nothing)
\* writes and modifies no task:<id> or result:<id> key and leaves the queue
\* as it was, whatever was handled before; the worker is polling again.
C22_TimeoutLeavesStore ==
  [][(/\ queue = << >>
      /\ \E w \in Workers : pc[w] = "pop"
      \* every other step of a worker moves that worker on
      /\ pc' = pc)
       => /\ store' = store
          /\ queue' = queue
          /\ writes' = writes
          /\ handled' = handled
          /\ \E w \in Workers : pc[w] = "pop" /\ task_data'[w] = NoPayload]_vars

C22_Witness ==
  \E w \in Workers, i, j \in Ids :
    /\ pc[w] = "pop" /\ queue = << >>
    /\ task_data[w] = NoPayload
    /\ task_id[w] = j
    /\ StatusOf(i) = "completed" /\ StatusOf(j) = "failed"
    /\ {<<w, TaskKey(i)>>, <<w, TaskKey(j)>>} \subseteq writes

====
